---- MODULE Spec2Model ----
(***************************************************************************)
(* Account bootstrap and authentication routes of app/routes/auth.py:      *)
(* register, login, /me, /check-admin/{workspace_id} and logout, over a    *)
(* shared users collection.  Every await on the database is one atomic     *)
(* step of the store; the code between two awaits runs without             *)
(* interleaving (one asyncio event loop per worker, several workers).      *)
(*                                                                         *)
(* Strings are sequences of one-character strings.  created_at/updated_at  *)
(* are written by register and read by no operation; they are left out of  *)
(* the stored document.  The snapshot's line 72 carries a stray character  *)
(* and line 80 lost its indentation; both are read as the statements they  *)
(* evidently are.                                                          *)
(***************************************************************************)
EXTENDS Naturals, Sequences, FiniteSets, TLC

VARIABLES
    users,      \* db.users: the stored documents, in insertion order
    pc,         \* pc[p]: where register request p stands
    user,       \* user[p]: the UserCreate body of request p
    find_key,   \* find_key[p]: the email sent to find_one by request p
    user_dict,  \* user_dict[p]: the document request p sends to insert_one
    result,     \* result[p]: the HTTP outcome of request p
    exc,        \* exc[p]: the exception the store raised to request p, "" for none
    now,        \* the clock, in token-lifetime units
    tokens,     \* bearer tokens the callers hold
    resp        \* the response to the last login, /me, /check-admin or logout call, until read

vars == <<users, pc, user, find_key, user_dict, result, exc, now, tokens, resp>>

regVars == <<pc, user, find_key, user_dict, result, exc>>
authVars == <<now, tokens, resp>>

---------------------------------------------------------------------------
(* Bounds of the model *)

NRequests == 3       \* register requests, each handled by its own coroutine
MaxTime == 4         \* the clock stops here
MaxTokens == 2       \* tokens the callers keep at a time

Requests == 1..NRequests

---------------------------------------------------------------------------
(* Program constants *)

MinPasswordLen == 6           \* len(user.password) < 6
MinNameLen == 2               \* len(user.full_name.strip()) < 2
AccessTokenExpire == 2        \* settings.access_token_expire_minutes

---------------------------------------------------------------------------
(* str.lower() and str.strip() *)

IsSpace(c) == c = " "

LowerChar(c) == IF c = "A" THEN "a" ELSE IF c = "B" THEN "b" ELSE c

lower(s) == [i \in 1..Len(s) |-> LowerChar(s[i])]

RECURSIVE lstrip(_)
lstrip(s) == IF s # <<>> /\ IsSpace(Head(s)) THEN lstrip(Tail(s)) ELSE s

RECURSIVE rstrip(_)
rstrip(s) == IF s # <<>> /\ IsSpace(s[Len(s)]) THEN rstrip(SubSeq(s, 1, Len(s) - 1)) ELSE s

strip(s) == rstrip(lstrip(s))

---------------------------------------------------------------------------
(* Request bodies *)

EmailA     == <<"a">>
EmailAVar  == <<" ", "A">>          \* normalizes to EmailA
EmailB     == <<"b">>
EmailBlank == <<" ">>               \* non-empty, normalizes to ""
Secret1    == <<"s", "e", "c", "r", "e", "1">>
Secret2    == <<"s", "e", "c", "r", "e", "2">>
ShortPw    == <<"p", "w">>
NameAl     == <<"A", "l">>
NamePadded == <<" ", "A", "l", " ">>
NameShort  == <<" ", "A", " ">>     \* non-empty, one character once trimmed

UserCreate(e, p, n) == [email |-> e, password |-> p, full_name |-> n]

ValidBodies ==
    { UserCreate(EmailA, Secret1, NameAl),
      UserCreate(EmailAVar, Secret2, NamePadded),
      UserCreate(EmailB, Secret1, NameAl),
      UserCreate(EmailBlank, Secret1, NameAl) }

InvalidBodies ==
    { UserCreate(EmailA, <<>>, NameShort),        \* rules 1, 2 and 3
      UserCreate(EmailA, ShortPw, NameShort),     \* rules 2 and 3
      UserCreate(EmailA, Secret1, NameShort) }    \* rule 3

Bodies == ValidBodies \cup InvalidBodies

NoBody == UserCreate(<<>>, <<>>, <<>>)

---------------------------------------------------------------------------
(* HTTP outcomes of register *)

Outcome(s, d, id) == [status |-> s, detail |-> d, id |-> id]

NoResult == Outcome(0, "", 0)

RequiredMissing == Outcome(400, "Email, password, and full name are required", 0)
PasswordTooShort == Outcome(400, "Password must be at least 6 characters", 0)
NameTooShort == Outcome(400, "Full name must be at least 2 characters", 0)
EmailRegistered == Outcome(400, "Email already registered", 0)
DuplicateUser == Outcome(400, "User with this email already exists", 0)
ServerError == Outcome(500, "Internal Server Error", 0)
Created(id) == Outcome(200, "", id)

\* the name check placed before the password check
ValidateNameFirst(u) ==
    IF u.email = <<>> \/ u.password = <<>> \/ u.full_name = <<>> THEN RequiredMissing
    ELSE IF Len(strip(u.full_name)) < MinNameLen THEN NameTooShort
    ELSE IF Len(u.password) < MinPasswordLen THEN PasswordTooShort
    ELSE NoResult

\* register, lines 26-43: the first failed check raises; NoResult when all pass
Validate(u) ==
    IF u.email = <<>> \/ u.password = <<>> \/ u.full_name = <<>> THEN RequiredMissing
    ELSE IF Len(u.password) < MinPasswordLen THEN PasswordTooShort
    ELSE IF Len(strip(u.full_name)) < MinNameLen THEN NameTooShort
    ELSE NoResult

\* register, line 46: the filter of find_one
FindFilter(u) == strip(lower(u.email))

\* the email stored as it was typed
StoredEmailRaw(u) == u.email

\* register, line 58
StoredEmail(u) == strip(lower(u.email))

\* a role that does not look at the count
RoleForAlwaysMember(existing_users) == "member"

\* a role check that is off by one
RoleForUpToOne(existing_users) == IF existing_users <= 1 THEN "admin" ELSE "member"

\* register, lines 68-73
RoleFor(existing_users) == IF existing_users = 0 THEN "admin" ELSE "member"

\* get_password_hash: a salted one-way hash, the salt embedded in the output
Salts == {"$1"}
get_password_hash(salt, password) == <<"$hash", salt>> \o password

\* the hasher's verify: recompute under the embedded salt
verify_password(password, hashed) == hashed = get_password_hash(hashed[2], password)

\* the document built with is_admin left at the model's default
BuildUserDictFlagUnset(u, existing_users, salt) ==
    [email |-> StoredEmail(u),
     full_name |-> strip(u.full_name),
     hashed_password |-> get_password_hash(salt, u.password),
     username |-> strip(lower(u.email)),
     workspaces |-> <<>>,
     role |-> RoleFor(existing_users),
     is_admin |-> FALSE]

\* the document built without del user_dict["password"]
BuildUserDictKeepPassword(u, existing_users, salt) ==
    [email |-> StoredEmail(u),
     password |-> u.password,
     full_name |-> strip(u.full_name),
     hashed_password |-> get_password_hash(salt, u.password),
     username |-> strip(lower(u.email)),
     workspaces |-> <<>>,
     role |-> RoleFor(existing_users),
     is_admin |-> (RoleFor(existing_users) = "admin")]

\* register, lines 56-76: user.dict(), the overwritten and added keys, del password
BuildUserDict(u, existing_users, salt) ==
    LET d == [email |-> StoredEmail(u),
              password |-> u.password,
              full_name |-> strip(u.full_name),
              hashed_password |-> get_password_hash(salt, u.password),
              username |-> strip(lower(u.email)),
              workspaces |-> <<>>,
              role |-> RoleFor(existing_users),
              is_admin |-> (RoleFor(existing_users) = "admin")]
    IN  [f \in DOMAIN d \ {"password"} |-> d[f]]

NoDict == [email |-> <<>>]

NoResp == [op |-> "none"]

---------------------------------------------------------------------------
(* The users collection *)

\* find_one({"email": key})
find_one(key) ==
    LET hits == {i \in 1..Len(users) : users[i].email = key}
    IN  IF hits = {} THEN 0 ELSE CHOOSE i \in hits : \A j \in hits : i <= j

\* count_documents({})
count_documents == Len(users)

\* the unique index on email: insert_one raises DuplicateKeyError
DuplicateKey(doc) == \E i \in 1..Len(users) : users[i].email = doc.email

\* insert_one: the store assigns _id
Inserted(doc) ==
    Append(users, [f \in DOMAIN doc \cup {"_id"} |->
                      IF f = "_id" THEN Len(users) + 1 ELSE doc[f]])

---------------------------------------------------------------------------
(* register *)

Init ==
    /\ users = <<>>
    /\ pc = [p \in Requests |-> "idle"]
    /\ user = [p \in Requests |-> NoBody]
    /\ find_key = [p \in Requests |-> <<>>]
    /\ user_dict = [p \in Requests |-> NoDict]
    /\ result = [p \in Requests |-> NoResult]
    /\ exc = [p \in Requests |-> ""]
    /\ now = 0
    /\ tokens = {}
    /\ resp = NoResp

\* lines 22-46: a request arrives, is validated, and sends find_one
Begin(p, u) ==
    /\ pc[p] = "idle"
    /\ user' = [user EXCEPT ![p] = u]
    /\ UNCHANGED <<user_dict, exc>>
    /\ IF Validate(u) # NoResult
       THEN /\ pc' = [pc EXCEPT ![p] = "done"]
            /\ result' = [result EXCEPT ![p] = Validate(u)]
            /\ find_key' = [find_key EXCEPT ![p] = <<>>]
       ELSE /\ pc' = [pc EXCEPT ![p] = "find"]
            /\ result' = [result EXCEPT ![p] = NoResult]
            /\ find_key' = [find_key EXCEPT ![p] = FindFilter(u)]
    /\ UNCHANGED <<users, authVars>>

\* lines 46-54: find_one answers; the request raises or sends count_documents
FindOne(p) ==
    /\ pc[p] = "find"
    /\ IF find_one(find_key[p]) # 0
       THEN /\ pc' = [pc EXCEPT ![p] = "done"]
            /\ result' = [result EXCEPT ![p] = EmailRegistered]
            /\ find_key' = [find_key EXCEPT ![p] = <<>>]
       ELSE /\ pc' = [pc EXCEPT ![p] = "count"]
            /\ UNCHANGED <<result, find_key>>
    /\ UNCHANGED <<users, user, user_dict, exc, authVars>>

\* lines 54-80: count_documents answers; the document is built and sent to insert_one
CountDocuments(p) ==
    /\ pc[p] = "count"
    /\ \E salt \in Salts :
          user_dict' = [user_dict EXCEPT ![p] = BuildUserDict(user[p], count_documents, salt)]
    /\ pc' = [pc EXCEPT ![p] = "insert"]
    /\ UNCHANGED <<users, user, find_key, result, exc, authVars>>

\* an except clause that re-raises the DuplicateKeyError untranslated
OnDuplicateKeyReraise == ServerError

\* an except clause that swallows the DuplicateKeyError and answers as if created
OnDuplicateKeySwallows == Outcome(200, "", 0)

\* lines 81-87: what the except clause makes of a DuplicateKeyError
OnDuplicateKey == DuplicateUser

\* lines 79-90: insert_one answers
InsertOne(p) ==
    /\ pc[p] = "insert"
    /\ IF DuplicateKey(user_dict[p])
       THEN /\ exc' = [exc EXCEPT ![p] = "DuplicateKeyError"]
            /\ result' = [result EXCEPT ![p] = OnDuplicateKey]
            /\ UNCHANGED users
       ELSE /\ users' = Inserted(user_dict[p])
            /\ result' = [result EXCEPT ![p] = Created(Len(users) + 1)]
            /\ UNCHANGED exc
    /\ pc' = [pc EXCEPT ![p] = "done"]
    /\ find_key' = [find_key EXCEPT ![p] = <<>>]
    /\ user_dict' = [user_dict EXCEPT ![p] = NoDict]
    /\ UNCHANGED <<user, authVars>>

\* a failed store call that is sent again instead of propagating
StoreFailsRetries(p) ==
    /\ pc[p] \in {"find", "count", "insert"}
    /\ exc' = [exc EXCEPT ![p] = "Exception"]
    /\ UNCHANGED <<users, pc, user, find_key, user_dict, result, authVars>>

\* lines 46, 54, 80-87: the awaited store call raises another error, which propagates
StoreFails(p) ==
    /\ pc[p] \in {"find", "count", "insert"}
    /\ pc' = [pc EXCEPT ![p] = "done"]
    /\ exc' = [exc EXCEPT ![p] = "Exception"]
    /\ result' = [result EXCEPT ![p] = ServerError]
    /\ find_key' = [find_key EXCEPT ![p] = <<>>]
    /\ user_dict' = [user_dict EXCEPT ![p] = NoDict]
    /\ UNCHANGED <<users, user, authVars>>

\* the bodies sent concurrently: one email, a variant of it, and another email
RacingBodies ==
    { UserCreate(EmailA, Secret1, NameAl),
      UserCreate(EmailAVar, Secret2, NamePadded),
      UserCreate(EmailB, Secret1, NameAl) }

Register ==
    \E p \in Requests :
        \/ \E u \in RacingBodies : Begin(p, u)
        \/ FindOne(p)
        \/ CountDocuments(p)
        \/ InsertOne(p)
        \/ StoreFails(p)

---------------------------------------------------------------------------
(* Tokens and the helpers of app.auth.auth_handler *)

WorkspaceIds == {"w1"}

\* create_access_token(data, expires_delta): a signed token with an absolute expiry
create_access_token(sub, expires_delta) ==
    [sub |-> sub, exp |-> now + expires_delta, signed |-> TRUE]

\* a token that no login issued: the signature does not verify
ForgedToken == [sub |-> EmailA, exp |-> MaxTime + AccessTokenExpire, signed |-> FALSE]

\* authenticate_user(username, password): the user's index in db.users, 0 for no user
authenticate_user(username, password) ==
    LET i == find_one(strip(lower(username)))
    IN  IF i = 0 THEN 0
        ELSE IF verify_password(password, users[i].hashed_password) THEN i
        ELSE 0

\* the token check of get_current_active_user: signature and expiry
TokenValid(token) == token.signed /\ now < token.exp

\* get_current_active_user(token): the user's index in db.users, 0 for a 401
get_current_active_user(token) ==
    IF TokenValid(token) THEN find_one(token.sub) ELSE 0

\* verify_workspace_admin(current_user, workspace_id)
verify_workspace_admin(doc, workspace_id) ==
    \/ doc.is_admin
    \/ \E k \in 1..Len(doc.workspaces) :
          /\ doc.workspaces[k].workspace_id = workspace_id
          /\ doc.workspaces[k].role \in {"admin", "owner"}

\* the User response model of a stored document
UserModel(doc) ==
    [id |-> doc._id, email |-> doc.email, full_name |-> doc.full_name,
     role |-> doc.role, is_admin |-> doc.is_admin, workspaces |-> doc.workspaces]

---------------------------------------------------------------------------
(* login, /me, /check-admin/{workspace_id}, logout *)

LoginForms ==
    { [username |-> EmailAVar, password |-> Secret2],
      [username |-> EmailAVar, password |-> Secret1],
      [username |-> EmailB, password |-> Secret1] }

\* login, lines 97-102
IncorrectLogin ==
    [status |-> 401, detail |-> "Incorrect email or password", www_authenticate |-> "Bearer"]

\* the 401 of get_current_active_user
InvalidCredentials ==
    [status |-> 401, detail |-> "Could not validate credentials", www_authenticate |-> "Bearer"]

\* a login that answers an unknown email differently
loginTellsUnknownEmail(form_data) ==
    LET u == authenticate_user(form_data.username, form_data.password)
    IN  IF u = 0
        THEN IF find_one(strip(lower(form_data.username))) = 0
             THEN [status |-> 404, detail |-> "User not found", www_authenticate |-> "Bearer"]
             ELSE IncorrectLogin
        ELSE [status |-> 200,
              access_token |-> create_access_token(users[u].email, AccessTokenExpire),
              token_type |-> "bearer"]

\* a login that binds the token to the username as it was typed
loginSubjectAsTyped(form_data) ==
    LET u == authenticate_user(form_data.username, form_data.password)
    IN  IF u = 0 THEN IncorrectLogin
        ELSE [status |-> 200,
              access_token |-> create_access_token(form_data.username, AccessTokenExpire),
              token_type |-> "bearer"]

\* a login that passes a lifetime one unit too long
loginLongerLifetime(form_data) ==
    LET u == authenticate_user(form_data.username, form_data.password)
    IN  IF u = 0 THEN IncorrectLogin
        ELSE [status |-> 200,
              access_token |-> create_access_token(users[u].email, AccessTokenExpire + 1),
              token_type |-> "bearer"]

\* login, lines 94-109
login(form_data) ==
    LET u == authenticate_user(form_data.username, form_data.password)
    IN  IF u = 0 THEN IncorrectLogin
        ELSE [status |-> 200,
              access_token |-> create_access_token(users[u].email, AccessTokenExpire),
              token_type |-> "bearer"]

\* get_current_user_info, lines 111-114
get_current_user_info(token) ==
    LET u == get_current_active_user(token)
    IN  IF u = 0 THEN InvalidCredentials
        ELSE [status |-> 200, user |-> UserModel(users[u])]

\* a check that answers "not admin" with an error
check_admin_accessForbids(workspace_id, token) ==
    LET u == get_current_active_user(token)
    IN  IF u = 0 THEN InvalidCredentials
        ELSE IF verify_workspace_admin(users[u], workspace_id)
        THEN [status |-> 200, is_admin |-> TRUE, user_id |-> users[u]._id]
        ELSE [status |-> 403, detail |-> "Not a workspace admin", www_authenticate |-> "Bearer"]

\* check_admin_access, lines 116-124
check_admin_access(workspace_id, token) ==
    LET u == get_current_active_user(token)
    IN  IF u = 0 THEN InvalidCredentials
        ELSE [status |-> 200,
              is_admin |-> verify_workspace_admin(users[u], workspace_id),
              user_id |-> users[u]._id]

\* logout, lines 126-129
logout == [status |-> 200, message |-> "Successfully logged out"]

\* a login that makes the user who logged in a global admin
LoginPromotes(form_data) ==
    LET u == authenticate_user(form_data.username, form_data.password)
    IN  /\ resp.op = "none"
        /\ resp' = [op |-> "login", form |-> form_data, out |-> login(form_data)]
        /\ users' = IF u = 0 THEN users
                    ELSE [users EXCEPT ![u].is_admin = TRUE, ![u].role = "admin"]
        /\ UNCHANGED <<regVars, now, tokens>>

\* login, lines 94-109: the store is only read
Login(form_data) ==
    /\ resp.op = "none"
    /\ resp' = [op |-> "login", form |-> form_data, out |-> login(form_data)]
    /\ UNCHANGED <<users, regVars, now, tokens>>

Me(token) ==
    /\ resp.op = "none"
    /\ resp' = [op |-> "me", token |-> token, out |-> get_current_user_info(token)]
    /\ UNCHANGED <<users, regVars, now, tokens>>

CheckAdmin(workspace_id, token) ==
    /\ resp.op = "none"
    /\ resp' = [op |-> "check-admin", token |-> token, workspace_id |-> workspace_id,
                out |-> check_admin_access(workspace_id, token)]
    /\ UNCHANGED <<users, regVars, now, tokens>>

\* a logout that wipes the server's users
LogoutWipes ==
    /\ resp.op = "none"
    /\ resp' = [op |-> "logout", out |-> logout]
    /\ users' = <<>>
    /\ UNCHANGED <<regVars, now, tokens>>

\* logout, lines 126-129: nothing but the response
Logout ==
    /\ resp.op = "none"
    /\ resp' = [op |-> "logout", out |-> logout]
    /\ UNCHANGED <<users, regVars, now, tokens>>

\* the caller reads the response and keeps or drops a token it was given
Read ==
    /\ resp.op # "none"
    /\ resp' = NoResp
    /\ \/ UNCHANGED tokens
       \/ /\ resp.op = "login"
          /\ resp.out.status = 200
          /\ Cardinality(tokens \cup {resp.out.access_token}) <= MaxTokens
          /\ tokens' = tokens \cup {resp.out.access_token}
    /\ UNCHANGED <<users, regVars, now>>

\* time passes
Tick ==
    /\ now < MaxTime
    /\ now' = now + 1
    /\ UNCHANGED <<users, regVars, tokens, resp>>

Auth ==
    \/ \E f \in LoginForms : Login(f)
    \/ \E t \in tokens \cup {ForgedToken} : Me(t)
    \/ \E w \in WorkspaceIds, t \in tokens \cup {ForgedToken} : CheckAdmin(w, t)
    \/ Logout
    \/ Read
    \/ Tick

---------------------------------------------------------------------------
(* Specifications *)

\* concurrent register requests
Next == Register

Spec == Init /\ [][Next]_vars

\* register requests one after another
InFlight(p) == pc[p] \in {"find", "count", "insert"}

SeqRegister ==
    \E p \in Requests :
        \/ \E u \in Bodies : (\A q \in Requests : ~InFlight(q)) /\ Begin(p, u)
        \/ FindOne(p)
        \/ CountDocuments(p)
        \/ InsertOne(p)
        \/ StoreFails(p)

SeqSpec == Init /\ [][SeqRegister]_vars

\* registration and the token operations together
AuthBodies ==
    { UserCreate(EmailAVar, Secret2, NamePadded),
      UserCreate(EmailB, Secret1, NameAl) }

\* one request per account
AuthRequests == {p \in Requests : p <= Cardinality(AuthBodies)}

AuthRegister ==
    \E p \in AuthRequests :
        \/ \E u \in AuthBodies : (\A q \in Requests : ~InFlight(q)) /\ Begin(p, u)
        \/ FindOne(p)
        \/ CountDocuments(p)
        \/ InsertOne(p)
        \/ StoreFails(p)

AuthNext == AuthRegister \/ Auth

AuthSpec == Init /\ [][AuthNext]_vars

\* concurrent register requests; the store keeps answering while a call is pending
OutcomeBodies == RacingBodies \cup {UserCreate(EmailA, ShortPw, NameShort)}

StoreAnswers(p) == FindOne(p) \/ CountDocuments(p) \/ InsertOne(p) \/ StoreFails(p)

LiveRegister ==
    \E p \in Requests :
        \/ \E u \in OutcomeBodies : Begin(p, u)
        \/ StoreAnswers(p)

LiveSpec ==
    /\ Init
    /\ [][LiveRegister]_vars
    /\ WF_vars(\E p \in Requests : StoreAnswers(p))

\* the token operations with workspace memberships written by the workspace routes
Membership(w, r) == [workspace_id |-> w, role |-> r]

Memberships ==
    { <<>>,
      <<Membership("w1", "admin")>>,
      <<Membership("w1", "owner")>>,
      <<Membership("w1", "member")>>,
      <<Membership("w2", "admin")>> }

\* a collaborator outside these routes rewrites a user's workspaces
SetWorkspaces(i, ws) ==
    /\ i \in 1..Len(users)
    /\ users[i].workspaces # ws
    /\ users' = [users EXCEPT ![i].workspaces = ws]
    /\ UNCHANGED <<regVars, authVars>>

MemberNext ==
    \/ AuthRegister
    \/ \E f \in LoginForms : Login(f)
    \/ \E w \in WorkspaceIds, t \in tokens \cup {ForgedToken} : CheckAdmin(w, t)
    \/ Read
    \/ Tick
    \/ \E i \in 1..Len(users), ws \in Memberships : SetWorkspaces(i, ws)

MemberSpec == Init /\ [][MemberNext]_vars

---------------------------------------------------------------------------
(* Properties *)

Normalized(e) == strip(lower(e))

Admins == {i \in 1..Len(users) : users[i].role = "admin" \/ users[i].is_admin}

Finished(p) == pc[p] = "done"

Succeeded(p) == Finished(p) /\ result[p].status = 200

IsConflict(res) == res \in {EmailRegistered, DuplicateUser}

IsValidationError(res) == res \in {RequiredMissing, PasswordTooShort, NameTooShort}

SameEmail(p, q) == Normalized(user[p].email) = Normalized(user[q].email)

\* C1: under any interleaving of concurrent register requests at most one
\* stored user has role = admin / is_admin = true.
C1_AtMostOneAdmin == Cardinality(Admins) <= 1

\* C2: when register requests run one after another, the first record stored
\* is role = admin, is_admin = true, and every later one is role = member,
\* is_admin = false, whatever failed requests came before.
C2_FirstIsAdminRestMembers ==
    \A i \in 1..Len(users) :
        IF i = 1
        THEN users[i].role = "admin" /\ users[i].is_admin = TRUE
        ELSE users[i].role = "member" /\ users[i].is_admin = FALSE

\* two registrations stored one after another, and a request that failed
C2_Witness ==
    /\ Len(users) >= 2
    /\ \E p \in Requests : Finished(p) /\ result[p].status # 200

\* C3: under any interleaving no two stored records have the same normalized
\* email; of the requests for one normalized email at most one is created, and
\* a request whose insert meets the uniqueness constraint ends with the
\* conflict error while another request for that email is the created one.
C3_UniqueEmail ==
    /\ \A i, j \in 1..Len(users) :
          i # j => Normalized(users[i].email) # Normalized(users[j].email)
    /\ \A p, q \in Requests :
          p # q /\ SameEmail(p, q) => ~(Succeeded(p) /\ Succeeded(q))
    /\ \A p \in Requests :
          Finished(p) /\ exc[p] = "DuplicateKeyError" =>
             /\ IsConflict(result[p])
             /\ \E q \in Requests \ {p} : Succeeded(q) /\ SameEmail(p, q)

\* two requests for one normalized email passed find_one; one was inserted
C3_Witness ==
    \E p, q \in Requests :
        /\ p # q
        /\ user[p].email # user[q].email
        /\ SameEmail(p, q)
        /\ Succeeded(q)
        /\ Finished(p) /\ exc[p] = "DuplicateKeyError"

NormalizedEmails == {Normalized(u.email) : u \in Bodies}

Registered(e) == \E i \in 1..Len(users) : Normalized(users[i].email) = e

\* C4: once an email is registered, a register call that arrives later with an
\* email normalizing to the same value (a case or whitespace variant included)
\* never reaches count_documents or insert_one, so it adds no record, and when
\* its input is valid and the lookup is answered it ends with the conflict error.
C4_LaterSameEmailConflicts ==
    \A p \in Requests : \A e \in NormalizedEmails :
        [](pc[p] = "idle" /\ Registered(e) =>
              [](pc[p] # "idle" /\ Normalized(user[p].email) = e =>
                    /\ pc[p] \in {"find", "done"}
                    /\ Finished(p) => result[p].status # 200
                    /\ Finished(p) /\ Validate(user[p]) = NoResult /\ exc[p] = "" =>
                          result[p] = EmailRegistered))

\* a case-and-whitespace variant of a registered email was refused
C4_Witness ==
    \E p, q \in Requests :
        /\ Succeeded(q) /\ user[q].email = EmailA
        /\ Finished(p) /\ user[p].email = EmailAVar
        /\ result[p] = EmailRegistered

RequiredRule(u) == u.email = <<>> \/ u.password = <<>> \/ u.full_name = <<>>
PasswordRule(u) == Len(u.password) < 6
NameRule(u) == Len(strip(u.full_name)) < 2

FirstViolation(u) ==
    IF RequiredRule(u) THEN RequiredMissing
    ELSE IF PasswordRule(u) THEN PasswordTooShort
    ELSE IF NameRule(u) THEN NameTooShort
    ELSE NoResult

\* C5: register checks (1) any field empty, (2) password shorter than 6,
\* (3) trimmed full name shorter than 2, in that order, and reports the first
\* violated rule; the request ends in the step in which it arrived, with no
\* find_one, count_documents or insert_one, and the store is unchanged.
C5_ValidationOrder ==
    [][\A p \in Requests :
          pc[p] = "idle" /\ pc'[p] # "idle" /\ FirstViolation(user'[p]) # NoResult =>
             /\ pc'[p] = "done"
             /\ result'[p] = FirstViolation(user'[p])
             /\ exc'[p] = ""
             /\ users' = users]_vars

\* a body that breaks rules 2 and 3 was answered with rule 2
C5_Witness ==
    \E p \in Requests :
        /\ Finished(p)
        /\ PasswordRule(user[p]) /\ NameRule(user[p]) /\ ~RequiredRule(user[p])
        /\ result[p] = PasswordTooShort

StringFields == {"email", "full_name", "username", "hashed_password", "password"}

\* C6: for every successful register call the stored email is the input email
\* lowercased and trimmed, the same value is the find_one filter and the email
\* of the document sent to insert_one, and the stored document has a password
\* hash and no field holding the plaintext password.
C6_NormalizedEmailNoPlaintext ==
    \A p \in Requests :
        /\ pc[p] \in {"find", "count", "insert"} =>
              find_key[p] = strip(lower(user[p].email))
        /\ pc[p] = "insert" => user_dict[p].email = find_key[p]
        /\ Succeeded(p) =>
              LET doc == users[result[p].id]
              IN  /\ doc.email = strip(lower(user[p].email))
                  /\ "hashed_password" \in DOMAIN doc
                  /\ "password" \notin DOMAIN doc
                  /\ \A f \in StringFields \cap DOMAIN doc : doc[f] # user[p].password

\* a registration whose email had to be lowercased and trimmed was stored
C6_Witness ==
    \E p \in Requests :
        /\ Succeeded(p)
        /\ user[p].email = EmailAVar
        /\ users[result[p].id].email = EmailA

UserAbsent(f) == find_one(strip(lower(f.username))) = 0

WrongPassword(f) ==
    LET i == find_one(strip(lower(f.username)))
    IN  i # 0 /\ ~verify_password(f.password, users[i].hashed_password)

\* C7: login for an email that is not stored and login for a stored email with
\* a wrong password give the same outcome (status, detail, headers), a 401
\* that carries no token.
C7_LoginFailuresIndistinguishable ==
    /\ \A f1, f2 \in LoginForms :
          UserAbsent(f1) /\ WrongPassword(f2) =>
             /\ login(f1) = login(f2)
             /\ login(f1).status = 401
             /\ "access_token" \notin DOMAIN login(f1)
    /\ resp.op = "login" /\ resp.out.status # 200 =>
          /\ resp.out.status = 401
          /\ "access_token" \notin DOMAIN resp.out
          /\ \A f \in LoginForms : login(f).status # 200 => login(f) = resp.out

\* a login with a wrong password was refused while another email is unknown
C7_Witness ==
    /\ resp.op = "login"
    /\ WrongPassword(resp.form)
    /\ resp.out.status = 401
    /\ \E f \in LoginForms : UserAbsent(f)

Credentials(p) == [username |-> user[p].email, password |-> user[p].password]

\* C8: after a successful register, login with the same email and password
\* returns a token whose subject is the stored normalized email, and /me with
\* that token, before it expires, returns the user that register created.
C8_RegisterLoginMe ==
    /\ \A p \in Requests :
          Succeeded(p) =>
             LET out == login(Credentials(p))
             IN  /\ out.status = 200
                 /\ out.access_token.sub = users[result[p].id].email
                 /\ out.access_token.sub = strip(lower(user[p].email))
                 /\ get_current_user_info(out.access_token).status = 200
                 /\ get_current_user_info(out.access_token).user.id = result[p].id
    /\ \A t \in tokens :
          now < t.exp =>
             /\ get_current_user_info(t).status = 200
             /\ get_current_user_info(t).user.email = t.sub
             /\ \E p \in Requests :
                   /\ Succeeded(p)
                   /\ get_current_user_info(t).user = UserModel(users[result[p].id])
                   /\ strip(lower(user[p].email)) = t.sub

\* /me answered a held token with the user registered under a variant spelling
C8_Witness ==
    /\ resp.op = "me"
    /\ resp.token \in tokens
    /\ resp.out.status = 200
    /\ \E p \in Requests :
          /\ Succeeded(p)
          /\ user[p].email = EmailAVar
          /\ resp.out.user.id = result[p].id
          /\ resp.out.user.email = EmailA

Accepted(t) == get_current_user_info(t).status = 200

AcceptedForAdminCheck(t) == \A w \in WorkspaceIds : check_admin_access(w, t).status = 200

\* C9: a token that login issues at time t expires at t + the configured
\* lifetime; /me and /check-admin accept a held token exactly while the clock is
\* before its expiry, and from the expiry on both answer 401.
C9_TokenLifetime ==
    [][/\ resp.op = "none" /\ resp'.op = "login" /\ resp'.out.status = 200 =>
             resp'.out.access_token.exp = now + AccessTokenExpire
       /\ \A t \in tokens :
             /\ Accepted(t) <=> now < t.exp
             /\ AcceptedForAdminCheck(t) <=> now < t.exp
             /\ now >= t.exp =>
                   /\ get_current_user_info(t) = InvalidCredentials
                   /\ \A w \in WorkspaceIds : check_admin_access(w, t) = InvalidCredentials
       /\ \A t \in tokens' : t.exp <= now' + AccessTokenExpire]_vars

\* /check-admin refused a held token at its expiry time
C9_Witness ==
    /\ resp.op = "check-admin"
    /\ resp.token \in tokens
    /\ resp.out.status = 401
    /\ now = resp.token.exp

\* C10: logout changes nothing on the server: the stored users are the same
\* and every held token is accepted after it exactly as before; a held token
\* stops being accepted only when the clock reaches its expiry.
C10_LogoutChangesNothing ==
    [][/\ resp.op = "none" /\ resp'.op = "logout" =>
             /\ users' = users
             /\ now' = now
             /\ \A t \in tokens : Accepted(t)' = Accepted(t)
       /\ \A t \in tokens : Accepted(t) /\ ~Accepted(t)' => now' >= t.exp]_vars

\* logout was called while a held token is still accepted
C10_Witness ==
    /\ resp.op = "logout"
    /\ \E t \in tokens : Accepted(t)

AdminRoles == {"admin", "owner"}

HasAdminEntry(doc, w) ==
    \E k \in 1..Len(doc.workspaces) :
        doc.workspaces[k].workspace_id = w /\ doc.workspaces[k].role \in AdminRoles

\* C11: /check-admin with a valid token answers 200 with is_admin = true for
\* a global admin whatever the workspaces hold, true for a user who is not a
\* global admin and has an entry for the workspace with an admin role, and
\* false, still a 200 and not an error, in every other case.
C11_CheckAdminAnswers ==
    \A t \in tokens : \A w \in WorkspaceIds :
        TokenValid(t) =>
           LET doc == users[find_one(t.sub)]
               out == check_admin_access(w, t)
           IN  /\ find_one(t.sub) # 0
               /\ out.status = 200
               /\ out.user_id = doc._id
               /\ doc.is_admin => out.is_admin = TRUE
               /\ ~doc.is_admin /\ HasAdminEntry(doc, w) => out.is_admin = TRUE
               /\ ~doc.is_admin /\ ~HasAdminEntry(doc, w) => out.is_admin = FALSE

\* /check-admin answered true to a member who administers the workspace
C11_Witness ==
    /\ resp.op = "check-admin"
    /\ resp.out.status = 200
    /\ resp.out.is_admin
    /\ \E i \in 1..Len(users) :
          /\ users[i]._id = resp.out.user_id
          /\ ~users[i].is_admin
          /\ users[i].workspaces = <<Membership("w1", "admin")>>

\* C12: when insert_one fails for a reason other than a uniqueness violation,
\* register ends at once with the propagated 500 and is not run again, no
\* record is added, and once a request has failed so against an empty store the
\* first record stored afterwards is still an admin.
C12_StorageErrorPropagates ==
    /\ [][\A p \in Requests :
             /\ exc'[p] = "Exception" /\ exc[p] # "Exception" =>
                   /\ pc'[p] = "done"
                   /\ result'[p] = ServerError
                   /\ users' = users
             /\ Finished(p) => pc'[p] = "done" /\ result'[p] = result[p]]_vars
    /\ \A p \in Requests :
          [](Finished(p) /\ exc[p] = "Exception" /\ users = <<>> =>
                [](users # <<>> => users[1].role = "admin" /\ users[1].is_admin))

\* a request failed with a storage error and the one stored record is an admin
C12_Witness ==
    /\ Len(users) = 1
    /\ users[1].is_admin
    /\ \E p \in Requests : Finished(p) /\ exc[p] = "Exception" /\ result[p] = ServerError

\* C13: in every reachable state every stored record has is_admin = true
\* exactly when role = admin, a role that is admin or member, and, register,
\* login, /me, /check-admin and logout being the only operations, no workspaces.
C13_RecordShape ==
    \A i \in 1..Len(users) :
        /\ users[i].is_admin \in BOOLEAN
        /\ users[i].is_admin <=> users[i].role = "admin"
        /\ users[i].role \in {"admin", "member"}
        /\ users[i].workspaces = <<>>

\* an admin and a member are stored and a token operation has answered
C13_Witness ==
    /\ \E i, j \in 1..Len(users) : users[i].role = "admin" /\ users[j].role = "member"
    /\ resp.op \in {"me", "check-admin", "logout"}
    /\ tokens # {}

OutcomeKinds(res) ==
    {k \in {"Created", "ValidationError", "ConflictError", "StorageError"} :
        \/ k = "Created" /\ res.status = 200
        \/ k = "ValidationError" /\ IsValidationError(res)
        \/ k = "ConflictError" /\ IsConflict(res)
        \/ k = "StorageError" /\ res = ServerError}

\* C14: every register request that has arrived ends (from some point on no
\* request is in flight, and one that is done stays done), in one step and once,
\* with exactly one of the created user, a validation error, a conflict error
\* and a storage error; the store gains exactly one record, the one the outcome
\* names, when the outcome is the created user, and is unchanged when it is an error.
C14_OneOutcomePerRequest ==
    /\ [][\A p \in Requests :
             /\ ~Finished(p) /\ pc'[p] = "done" =>
                   /\ Cardinality(OutcomeKinds(result'[p])) = 1
                   /\ result'[p].status = 200 =>
                         /\ Len(users') = Len(users) + 1
                         /\ SubSeq(users', 1, Len(users)) = users
                         /\ users'[Len(users')]._id = result'[p].id
                         /\ users'[Len(users')].email = strip(lower(user'[p].email))
                   /\ result'[p].status # 200 => users' = users
             /\ Finished(p) => pc'[p] = "done" /\ result'[p] = result[p]]_vars
    /\ [][users' # users =>
             \E p \in Requests : ~Finished(p) /\ pc'[p] = "done" /\ result'[p].status = 200]_vars
    /\ <>[](\A p \in Requests : pc[p] \in {"idle", "done"})

\* the four kinds of outcome, one after racing inserts
C14_Witness ==
    \E p, q, r \in Requests :
        /\ Finished(p) /\ OutcomeKinds(result[p]) = {"Created"}
        /\ Finished(q) /\ OutcomeKinds(result[q]) = {"ConflictError"} /\ exc[q] = "DuplicateKeyError"
        /\ Finished(r) /\ OutcomeKinds(result[r]) \in {{"ValidationError"}, {"StorageError"}}

\* C15: register is the only operation that changes the store, and it only adds:
\* every step keeps the records already stored, field by field, and adds at most
\* one, and a step that adds one is the insert of a register request that ends
\* with the created user; a step in which login, /me, /check-admin or logout
\* answers leaves users unchanged. So no user is removed and no admin status changes.
C15_OnlyRegisterAdds ==
    [][/\ Len(users') \in {Len(users), Len(users) + 1}
       /\ SubSeq(users', 1, Len(users)) = users
       /\ users' # users =>
             \E p \in Requests :
                 /\ pc[p] = "insert" /\ pc'[p] = "done"
                 /\ result'[p].status = 200
                 /\ \A f \in DOMAIN user_dict[p] : users'[Len(users')][f] = user_dict[p][f]
       /\ resp' # resp => users' = users
       /\ resp'.op \in {"login", "me", "check-admin", "logout"} /\ resp.op = "none" =>
             /\ users' = users
             /\ Admins' = Admins]_vars

C15_Witness ==
    /\ Len(users) = 2
    /\ users[2].role = "member" /\ ~users[2].is_admin
    /\ resp.op = "login" /\ resp.out.status = 200
    /\ resp.out.access_token.sub = users[2].email
    /\ \E t \in tokens : t.sub = users[1].email

\* C16: every stored user record has a non-empty normalized email: no input that
\* passes validation, an email of whitespace only included, leaves a stored
\* record whose email is the empty string.
C16_StoredEmailNonEmpty ==
    \A i \in 1..Len(users) :
        /\ users[i].email = Normalized(users[i].email)
        /\ users[i].email # <<>>

\* C17: under any interleaving of concurrent register requests, a store that
\* holds a user holds a global admin, and the first record inserted is an admin;
\* a request is assigned member only when a record is already in the store.
C17_FirstStoredIsAdmin ==
    /\ Len(users) >= 1 =>
          /\ users[1].role = "admin" /\ users[1].is_admin = TRUE
          /\ Admins # {}
    /\ \A p \in Requests :
          user_dict[p] # NoDict /\ user_dict[p].role = "member" => Len(users) >= 1

\* one record stored, a request assigned member about to insert, a third in flight
C17_Witness ==
    /\ Len(users) = 1
    /\ \E p, q \in Requests :
          /\ p # q
          /\ pc[p] = "insert" /\ user_dict[p].role = "member"
          /\ pc[q] \in {"find", "count"}

====
